---- MODULE Spec2Model ----
(***************************************************************************)
(* Model of the libdns provider for Porkbun: Provider.AppendRecords,       *)
(* Provider.SetRecords, Provider.DeleteRecords and the helpers they call   *)
(* (getMatchingRecord, updateRecords, toLibdnsRecord), running against the *)
(* provider's HTTP API.  Every HTTP round trip is one step.                *)
(*                                                                         *)
(* Strings the code takes apart are modelled by their parts: a DNS name is *)
(* the sequence of its dot-separated labels ("www.example.com." is         *)
(* <<"www","example","com","">>, "" is <<"">>), a decimal string is the    *)
(* sequence of its characters ("600" is <<"6","0","0">>, "" is <<>>);     *)
(* record IDs are decimal strings.                                         *)
(***************************************************************************)
EXTENDS Integers, Sequences, FiniteSets, TLC

(***************************************************************************)
(* Bounds of the model.                                                    *)
(***************************************************************************)
\* longest input slice handed to an operation
MaxLen == 2
\* most records in the zone before the operation starts
MaxZone == 2

(***************************************************************************)
(* Program constants.                                                      *)
(***************************************************************************)
\* time.Second, in the model's duration unit (one millisecond)
Second == 1000
\* the TTL floor of AppendRecords and updateRecords, in seconds
MinTTL == 600

\* the zone argument of every call, "example.com."
Zone == <<"example", "com", "">>

Names == {<<"@">>, <<"www">>}
Types == {"TXT"}
\* the TTLs asked for: one below the floor, one above it that is no whole
\* number of seconds
TTLs == <<60 * Second, 900 * Second + 500>>
\* the ID of a record that has none, ""
NoID == <<>>

CallerIDs == {NoID, <<"1">>}
Procs == {"p1"}

\* what one HTTP round trip can come back with: HTTP 200 and status SUCCESS,
\* an error of MakeApiRequest (transport, non-200, undecodable body), or
\* HTTP 200 with a status other than SUCCESS
Outcomes == {"ok", "httpError", "statusError"}

(***************************************************************************)
(* Conversions.                                                            *)
(***************************************************************************)
Digits == <<"0", "1", "2", "3", "4", "5", "6", "7", "8", "9">>

Max(a, b) == IF a >= b THEN a ELSE b

\* Go's integer division, which truncates toward zero
GoDiv(a, b) == IF a >= 0 THEN a \div b ELSE -((-a) \div b)

RECURSIVE ItoaNat(_)
ItoaNat(n) == IF n < 10 THEN <<Digits[n + 1]>>
              ELSE Append(ItoaNat(n \div 10), Digits[(n % 10) + 1])

\* strconv.Itoa
Itoa(n) == IF n < 0 THEN <<"-">> \o ItoaNat(-n) ELSE ItoaNat(n)

DigitValue(ch) == CHOOSE d \in 0..9 : Digits[d + 1] = ch

IsDigit(ch) == \E d \in 0..9 : Digits[d + 1] = ch

RECURSIVE DigitsValue(_)
DigitsValue(s) == IF Len(s) = 0 THEN 0
                  ELSE 10 * DigitsValue(SubSeq(s, 1, Len(s) - 1)) + DigitValue(s[Len(s)])

\* strconv.Atoi on an unsigned decimal string: [ok, val]; val is 0 on error
Atoi(s) == IF Len(s) > 0 /\ \A k \in 1..Len(s) : IsDigit(s[k])
           THEN [ok |-> TRUE, val |-> DigitsValue(s)]
           ELSE [ok |-> FALSE, val |-> 0]

\* time.ParseDuration(s + "s") for a string of whole seconds: [ok, val]
ParseSeconds(s) == LET a == Atoi(s) IN [ok |-> a.ok, val |-> a.val * Second]

\* strings.TrimSuffix(s, "."), on the labels of s
TrimDot(s) == IF Len(s) >= 2 /\ s[Len(s)] = "" THEN SubSeq(s, 1, Len(s) - 1) ELSE s

\* strings.TrimSuffix(s, suf), on labels: suf is cut where s ends with it at a
\* label boundary; the dot before it stays ("www.example.com" - "example.com"
\* is "www.")
TrimSuffix(s, suf) ==
    IF suf = <<"">> THEN s
    ELSE IF Len(s) >= Len(suf) /\ SubSeq(s, Len(s) - Len(suf) + 1, Len(s)) = suf
         THEN SubSeq(s, 1, Len(s) - Len(suf)) \o <<"">>
         ELSE s

\* LibdnsZoneToPorkbunDomain: strips the trailing dot from a zone
LibdnsZoneToPorkbunDomain(zone) == TrimDot(zone)

\* libdns.RelativeName
RelativeName(fqdn, zone) ==
    LET rel == TrimDot(TrimSuffix(TrimDot(fqdn), TrimDot(zone)))
    IN  IF rel = <<"">> THEN <<"@">> ELSE rel

UntrimmedName(name, zone) == RelativeName(name, zone)

ApexName(name, zone) == <<"">>

\* the name put in a request: the relative name, the apex as ""
TrimmedName(name, zone) ==
    LET relativeName == RelativeName(name, zone)
    IN  IF relativeName = <<"@">> THEN <<"">> ELSE relativeName

\* pkbnRecord.toLibdnsRecord
toLibdnsRecord(record, zone) ==
    [ID       |-> record.ID,
     Name     |-> RelativeName(record.Name, LibdnsZoneToPorkbunDomain(zone)),
     Priority |-> Atoi(record.Prio).val,
     TTL      |-> ParseSeconds(record.TTL).val,
     Type     |-> record.Type,
     Value    |-> record.Content]

NoFloorTTL(ttl) == ttl

\* the TTL floor: a TTL of fewer than 600 whole seconds becomes 600 s
FloorTTL(ttl) == IF GoDiv(ttl, Second) < MinTTL THEN MinTTL * Second ELSE ttl

\* ttlInSeconds
TTLInSeconds(ttl) == GoDiv(ttl, Second)

\* pkbnRecordPayload of a record whose TTL has been floored
Payload(record, zone) ==
    [Content |-> record.Value,
     Name    |-> TrimmedName(record.Name, zone),
     TTL     |-> Itoa(TTLInSeconds(record.TTL)),
     Type    |-> record.Type]

(***************************************************************************)
(* The provider's API, as the requests of the code see it.  The zone is a  *)
(* set of wire records with distinct IDs.                                  *)
(***************************************************************************)
\* the name the API stores for a request's subdomain
WireName(sub, domain) == IF sub = <<"">> THEN domain ELSE sub \o domain

IDsOf(z) == {r.ID : r \in z}

RecordWithID(z, id) == CHOOSE r \in z : r.ID = id

\* /dns/create/<domain>
ServerCreate(z, id, domain, payload) ==
    z \cup {[ID |-> id, Name |-> WireName(payload.Name, domain), Type |-> payload.Type,
             Content |-> payload.Content, TTL |-> payload.TTL, Prio |-> <<"0">>]}

\* /dns/edit/<domain>/<id>
ServerEdit(z, id, domain, payload) ==
    {IF r.ID = id
     THEN [r EXCEPT !.Name = WireName(payload.Name, domain), !.Type = payload.Type,
                    !.Content = payload.Content, !.TTL = payload.TTL]
     ELSE r : r \in z}

\* /dns/delete/<domain>/<id>
ServerDelete(z, id) == {r \in z : r.ID # id}

\* a set of records with distinct IDs, as a sequence in the order of their IDs
RECURSIVE SortByID(_)
SortByID(s) ==
    IF s = {} THEN <<>>
    ELSE LET m == CHOOSE r \in s : \A q \in s : DigitsValue(q.ID) >= DigitsValue(r.ID)
         IN  <<m>> \o SortByID(s \ {m})

\* /dns/retrieveByNameType/<domain>/<type>/<subdomain>
ServerRetrieveByNameType(z, domain, type, sub) ==
    SortByID({w \in z : w.Type = type /\ w.Name = WireName(sub, domain)})


(***************************************************************************)
(* State.                                                                  *)
(*   zone    the records the provider holds for the zone                   *)
(*   nextId  the number the provider gives the next record it creates      *)
(*   calls   per caller, the call of a Provider operation in progress: its *)
(*           position (pc), its arguments and local variables under their  *)
(*           names in the code, and, for the properties, the requests it   *)
(*           has made (log) and the zone as it was when it began (zone0)   *)
(***************************************************************************)
VARIABLES zone, nextId, calls

vars == <<zone, nextId, calls>>

\* what a caller's record says of the record it means
Shapes == [ID : CallerIDs, Name : Names, Type : Types]

SeqsUpTo(S, n) == UNION {[1..k -> S] : k \in 0..n}

\* the text of the k-th record of an input
Text(k) == "v" \o ToString(k)

\* the TTL the k-th record of an input asks for: the TTLs in turn
TTLOf(k) == TTLs[((k - 1) % Len(TTLs)) + 1]

\* the inputs of AppendRecords and SetRecords: up to MaxLen records, each with
\* a text of its own, which ask for the TTLs in turn
Inputs ==
    {[k \in 1..Len(s) |-> [ID |-> s[k].ID, Name |-> s[k].Name, Type |-> s[k].Type,
                           Value |-> Text(k), TTL |-> TTLOf(k), Priority |-> 0]]
     : s \in SeqsUpTo(Shapes, MaxLen)}

\* the inputs of DeleteRecords: records that only say what to delete
DeleteInputs ==
    {[k \in 1..Len(s) |-> [ID |-> s[k].ID, Name |-> s[k].Name, Type |-> s[k].Type,
                           Value |-> "", TTL |-> 0, Priority |-> 0]]
     : s \in SeqsUpTo(Shapes, MaxLen)}

\* the zones an operation may find: n records, with IDs 1..n
InitZones ==
    UNION {{{[ID |-> Itoa(k),
              Name |-> IF f[k][1] = <<"@">> THEN <<"example", "com">>
                       ELSE f[k][1] \o <<"example", "com">>,
              Type |-> f[k][2], Content |-> "v0", TTL |-> Itoa(MinTTL), Prio |-> <<"0">>]
             : k \in 1..n} : f \in [1..n -> Names \X Types]} : n \in 0..MaxZone}

Idle ==
    [op |-> "idle", pc |-> "idle", records |-> <<>>, i |-> 0,
     creates |-> <<>>, updates |-> <<>>, createsAt |-> <<>>, updatesAt |-> <<>>,
     arg |-> <<>>, created |-> <<>>, createdRecords |-> <<>>,
     queuedDeletes |-> <<>>, j |-> 0, deletedRecords |-> <<>>,
     ret |-> [recs |-> <<>>, err |-> "nil"], log |-> <<>>, zone0 |-> {}]

Init ==
    /\ zone \in InitZones
    /\ nextId = Cardinality(zone) + 1
    /\ calls = [p \in Procs |-> Idle]

\* the state of a call that has returned (recs, err)
Returned(c, recs, err) == [c EXCEPT !.pc = "returned", !.ret = [recs |-> recs, err |-> err]]

\* one request, as the log keeps it: the input record it is made for (at), the
\* record ID it addresses, what it carries and what came back (for a lookup,
\* the IDs of the records found)
Request(kind, at, id, payload, outcome, matches) ==
    [kind |-> kind, at |-> at, ID |-> id, Name |-> payload.Name, Type |-> payload.Type,
     Content |-> payload.Content, TTL |-> payload.TTL, outcome |-> outcome,
     matches |-> matches]

Logged(c, entry) == [c EXCEPT !.log = Append(@, entry)]

\* the outcomes of a request addressed to record id: only a record the zone
\* holds can be edited or deleted
OutcomesFor(id) == IF id \in IDsOf(zone) THEN Outcomes ELSE Outcomes \ {"ok"}

(***************************************************************************)
(* getMatchingRecord                                                       *)
(***************************************************************************)
LookupPayload(r, zone_) ==
    [Name |-> TrimmedName(r.Name, zone_), Type |-> r.Type, Content |-> "", TTL |-> <<>>]

\* what getMatchingRecord returns when its request comes back with outcome;
\* the status of the response is not looked at, and a response without
\* records gives no matches
getMatchingRecord(r, zone_, outcome) ==
    IF outcome = "httpError" THEN [recs |-> <<>>, err |-> "http"]
    ELSE IF outcome = "statusError" THEN [recs |-> <<>>, err |-> "nil"]
    ELSE LET found == ServerRetrieveByNameType(zone, LibdnsZoneToPorkbunDomain(zone_),
                                               r.Type, TrimmedName(r.Name, zone_))
         IN  [recs |-> [k \in 1..Len(found) |-> toLibdnsRecord(found[k], zone_)],
              err |-> "nil"]

LookupRequest(kind, at, r, m, outcome) ==
    Request(kind, at, NoID, LookupPayload(r, Zone), outcome,
            [k \in 1..Len(m.recs) |-> m.recs[k].ID])

(***************************************************************************)
(* updateRecords, and SetRecords from its call of it on                    *)
(***************************************************************************)
\* SetRecords once updateRecords has returned (recs, err)
UpdateReturns(c, recs, err) ==
    IF err # "nil" THEN Returned(c, <<>>, err)
    ELSE Returned(c, c.created \o recs, "nil")

\* updateRecords when the request itself fails: return nil, err
UpdateHttpFailure(c) == UpdateReturns(c, <<>>, "http")

\* updateRecords when the response's status is not SUCCESS: return nil, err,
\* where err is the nil error of the request that succeeded
UpdateStatusFailure(c) == UpdateReturns(c, <<>>, "nil")

\* the call of updateRecords(updates)
EnterUpdate(c) ==
    LET u == [c EXCEPT !.arg = c.updates, !.i = 1, !.createdRecords = <<>>]
    IN  IF Len(c.updates) = 0 THEN UpdateReturns(u, <<>>, "nil")
        ELSE [u EXCEPT !.pc = "update"]

\* one iteration of updateRecords: the edit request of record i
SetEdit(p) ==
    LET c == calls[p]
        record == [c.arg[c.i] EXCEPT !.TTL = FloorTTL(@)]
        payload == Payload(record, Zone)
    IN  /\ c.pc = "update"
        /\ \E outcome \in OutcomesFor(record.ID) :
            LET post == IF outcome = "ok"
                        THEN ServerEdit(zone, record.ID, LibdnsZoneToPorkbunDomain(Zone), payload)
                        ELSE zone
                l == Logged(c, Request("edit", c.updatesAt[c.i], record.ID, payload,
                                       outcome, <<>>))
                done == [l EXCEPT !.createdRecords = Append(@, record), !.i = @ + 1]
            IN  /\ zone' = post
                /\ calls' = [calls EXCEPT ![p] =
                       IF outcome = "httpError" THEN UpdateHttpFailure(l)
                       ELSE IF outcome = "statusError" THEN UpdateStatusFailure(l)
                       ELSE IF done.i > Len(done.arg)
                            THEN UpdateReturns(done, done.createdRecords, "nil")
                            ELSE done]
        /\ UNCHANGED nextId

(***************************************************************************)
(* AppendRecords, called by the caller or by SetRecords                    *)
(***************************************************************************)
\* the caller of AppendRecords once it has returned (recs, err): the
\* operation's own caller, or SetRecords, which goes on to updateRecords
AppendReturns(c, recs, err) ==
    IF c.op = "AppendRecords" THEN Returned(c, recs, err)
    ELSE IF err # "nil" THEN Returned(c, <<>>, err)
    ELSE EnterUpdate([c EXCEPT !.created = recs])

AppendFailureDropsRecords(c, err) == AppendReturns(c, <<>>, err)

\* AppendRecords when a create fails: return createdRecords, err
AppendFailure(c, err) == AppendReturns(c, c.createdRecords, err)

EnterAppendFirstOnly(c, recs) ==
    LET a == [c EXCEPT !.arg = IF Len(recs) = 0 THEN <<>> ELSE <<recs[1]>>, !.i = 1, !.createdRecords = <<>>]
    IN  IF Len(recs) = 0 THEN AppendReturns(a, <<>>, "nil")
        ELSE [a EXCEPT !.pc = "create"]

\* the call of AppendRecords(recs)
EnterAppend(c, recs) ==
    LET a == [c EXCEPT !.arg = recs, !.i = 1, !.createdRecords = <<>>]
    IN  IF Len(recs) = 0 THEN AppendReturns(a, <<>>, "nil")
        ELSE [a EXCEPT !.pc = "create"]

\* the input record the i-th record of AppendRecords' argument comes from
AppendAt(c) == IF c.op = "AppendRecords" THEN c.i ELSE c.createsAt[c.i]

\* one iteration of AppendRecords, to the create request
AppendCreate(p) ==
    LET c == calls[p]
        record == [c.arg[c.i] EXCEPT !.TTL = FloorTTL(@)]
        payload == Payload(record, Zone)
    IN  /\ c.pc = "create"
        /\ \E outcome \in Outcomes :
            LET post == IF outcome = "ok"
                        THEN ServerCreate(zone, Itoa(nextId), LibdnsZoneToPorkbunDomain(Zone), payload)
                        ELSE zone
                l == Logged(c, Request("create", AppendAt(c), NoID, payload,
                                       outcome, <<>>))
            IN  /\ zone' = post
                /\ nextId' = IF outcome = "ok" THEN nextId + 1 ELSE nextId
                /\ calls' = [calls EXCEPT ![p] =
                       IF outcome = "httpError" THEN AppendFailure(l, "http")
                       ELSE IF outcome = "statusError" THEN AppendFailure(l, "status")
                       ELSE [l EXCEPT !.pc = "fetchId"]]

FirstFetchedID(record, created) ==
    IF created.err = "nil" /\ Len(created.recs) >= 1
    THEN [record EXCEPT !.ID = created.recs[1].ID]
    ELSE record

\* the record AppendRecords reports once the lookup has returned: with the ID
\* of the match when the lookup returned no error and exactly one record
FetchedID(record, created) ==
    IF created.err = "nil" /\ Len(created.recs) = 1
    THEN [record EXCEPT !.ID = created.recs[1].ID]
    ELSE record

\* the rest of the iteration: the lookup that fetches the new record's ID
AppendFetchId(p) ==
    LET c == calls[p]
        record == [c.arg[c.i] EXCEPT !.TTL = FloorTTL(@)]
    IN  /\ c.pc = "fetchId"
        /\ \E outcome \in Outcomes :
            LET m == getMatchingRecord(record, Zone, outcome)
                withID == FetchedID(record, m)
                l == Logged(c, LookupRequest("fetchId", AppendAt(c), record, m, outcome))
                done == [l EXCEPT !.createdRecords = Append(@, withID), !.i = @ + 1]
            IN  calls' = [calls EXCEPT ![p] =
                    IF done.i > Len(done.arg)
                    THEN AppendReturns(done, done.createdRecords, "nil")
                    ELSE [done EXCEPT !.pc = "create"]]
        /\ UNCHANGED <<zone, nextId>>

StartAppend(p) ==
    /\ calls[p].pc = "idle"
    /\ \E records \in Inputs :
        calls' = [calls EXCEPT ![p] =
            EnterAppend([Idle EXCEPT !.op = "AppendRecords", !.records = records,
                                     !.zone0 = zone], records)]
    /\ UNCHANGED <<zone, nextId>>

(***************************************************************************)
(* SetRecords                                                              *)
(***************************************************************************)
\* the loop over the input from record i on, up to the next record that needs
\* a lookup; after the last record, the call of AppendRecords(creates)
RECURSIVE Classify(_)
Classify(c) ==
    IF c.i > Len(c.records) THEN EnterAppend(c, c.creates)
    ELSE IF c.records[c.i].ID = NoID THEN [c EXCEPT !.pc = "classify"]
    ELSE Classify([c EXCEPT !.updates = Append(@, c.records[c.i]),
                            !.updatesAt = Append(@, c.i), !.i = @ + 1])

AmbiguousPicksFirst(c) ==
    Classify([c EXCEPT !.updates = Append(@, [c.records[c.i] EXCEPT
                                                  !.ID = c.log[Len(c.log)].matches[1]]),
                       !.updatesAt = Append(@, c.i), !.i = @ + 1])

\* SetRecords when the lookup of record i finds more than one record
Ambiguous(c) == Returned(c, <<>>, "ambiguous")

ClassifiedUpdateOnly(c, m) ==
    LET r == c.records[c.i]
    IN  IF m.err # "nil" THEN Returned(c, <<>>, m.err)
        ELSE IF Len(m.recs) = 0 THEN Classify([c EXCEPT !.i = @ + 1])
        ELSE IF Len(m.recs) > 1 THEN Returned(c, <<>>, "ambiguous")
        ELSE Classify([c EXCEPT !.updates = Append(@, [r EXCEPT !.ID = m.recs[1].ID]),
                                !.updatesAt = Append(@, c.i), !.i = @ + 1])

ClassifiedLastFirst(c, m) ==
    LET r == c.records[c.i]
    IN  IF m.err # "nil" THEN Returned(c, <<>>, m.err)
        ELSE IF Len(m.recs) = 0
             THEN Classify([c EXCEPT !.creates = <<r>> \o @,
                                     !.createsAt = <<c.i>> \o @, !.i = @ + 1])
        ELSE IF Len(m.recs) > 1 THEN Returned(c, <<>>, "ambiguous")
        ELSE Classify([c EXCEPT !.updates = <<[r EXCEPT !.ID = m.recs[1].ID]>> \o @,
                                !.updatesAt = <<c.i>> \o @, !.i = @ + 1])

ClassifiedAsCreate(c, m) ==
    IF m.err # "nil" THEN Returned(c, <<>>, m.err)
    ELSE Classify([c EXCEPT !.creates = Append(@, c.records[c.i]),
                            !.createsAt = Append(@, c.i), !.i = @ + 1])

ClassifiedErrorAsCreate(c, m) ==
    LET r == c.records[c.i]
    IN  IF m.err # "nil" \/ Len(m.recs) = 0
        THEN Classify([c EXCEPT !.creates = Append(@, r),
                                !.createsAt = Append(@, c.i), !.i = @ + 1])
        ELSE IF Len(m.recs) > 1 THEN Ambiguous(c)
        ELSE Classify([c EXCEPT !.updates = Append(@, [r EXCEPT !.ID = m.recs[1].ID]),
                                !.updatesAt = Append(@, c.i), !.i = @ + 1])

\* SetRecords with the matches of record i
Classified(c, m) ==
    LET r == c.records[c.i]
    IN  IF m.err # "nil" THEN Returned(c, <<>>, m.err)
        ELSE IF Len(m.recs) = 0
             THEN Classify([c EXCEPT !.creates = Append(@, r),
                                     !.createsAt = Append(@, c.i), !.i = @ + 1])
        ELSE IF Len(m.recs) > 1 THEN Ambiguous(c)
        ELSE Classify([c EXCEPT !.updates = Append(@, [r EXCEPT !.ID = m.recs[1].ID]),
                                !.updatesAt = Append(@, c.i), !.i = @ + 1])

\* the lookup of a record that has no ID
SetLookup(p) ==
    LET c == calls[p]
        r == c.records[c.i]
    IN  /\ c.pc = "classify"
        /\ \E outcome \in Outcomes :
            LET m == getMatchingRecord(r, Zone, outcome)
            IN  calls' = [calls EXCEPT ![p] =
                    Classified(Logged(c, LookupRequest("lookup", c.i, r, m, outcome)), m)]
        /\ UNCHANGED <<zone, nextId>>

StartSet(p) ==
    /\ calls[p].pc = "idle"
    /\ \E records \in Inputs :
        calls' = [calls EXCEPT ![p] =
            Classify([Idle EXCEPT !.op = "SetRecords", !.records = records,
                                  !.i = 1, !.zone0 = zone])]
    /\ UNCHANGED <<zone, nextId>>

(***************************************************************************)
(* DeleteRecords                                                           *)
(***************************************************************************)
\* the loop over the input at record i: to its lookup, or with the record
\* itself queued; after the last record, the return
NextDelete(c) ==
    IF c.i > Len(c.records) THEN Returned(c, c.deletedRecords, "nil")
    ELSE IF c.records[c.i].ID = NoID THEN [c EXCEPT !.pc = "lookup"]
    ELSE [c EXCEPT !.queuedDeletes = <<c.records[c.i]>>, !.j = 1, !.pc = "delete"]

FirstMatchQueued(matches) == IF Len(matches) = 0 THEN <<>> ELSE <<matches[1]>>

\* the deletes queued for a record that has no ID: every match of its lookup
QueuedMatches(matches) == matches

\* the lookup of a record that has no ID
DeleteLookup(p) ==
    LET c == calls[p]
        record == c.records[c.i]
    IN  /\ c.pc = "lookup"
        /\ \E outcome \in Outcomes :
            LET m == getMatchingRecord(record, Zone, outcome)
                l == Logged(c, LookupRequest("lookup", c.i, record, m, outcome))
            IN  calls' = [calls EXCEPT ![p] =
                    IF m.err # "nil" THEN Returned(l, l.deletedRecords, m.err)
                    ELSE IF Len(QueuedMatches(m.recs)) = 0
                         THEN NextDelete([l EXCEPT !.i = @ + 1])
                    ELSE [l EXCEPT !.queuedDeletes = QueuedMatches(m.recs), !.j = 1,
                                   !.pc = "delete"]]
        /\ UNCHANGED <<zone, nextId>>

\* DeleteRecords with the response of a delete request: the record is
\* reported as deleted whatever the response's status
Deleted(c, recordToDelete, outcome) ==
    [c EXCEPT !.deletedRecords = Append(@, recordToDelete), !.j = @ + 1]

\* the delete request of queued record j
DeleteRequest(p) ==
    LET c == calls[p]
        recordToDelete == c.queuedDeletes[c.j]
        payload == [Name |-> <<"">>, Type |-> "", Content |-> "", TTL |-> <<>>]
    IN  /\ c.pc = "delete"
        /\ \E outcome \in OutcomesFor(recordToDelete.ID) :
            LET post == IF outcome = "ok" THEN ServerDelete(zone, recordToDelete.ID) ELSE zone
                l == Logged(c, Request("delete", c.i, recordToDelete.ID, payload,
                                       outcome, <<>>))
                done == Deleted(l, recordToDelete, outcome)
            IN  /\ zone' = post
                /\ calls' = [calls EXCEPT ![p] =
                       IF outcome = "httpError" THEN Returned(l, l.deletedRecords, "http")
                       ELSE IF done.j > Len(done.queuedDeletes)
                            THEN NextDelete([done EXCEPT !.i = @ + 1])
                            ELSE done]
        /\ UNCHANGED nextId

StartDelete(p) ==
    /\ calls[p].pc = "idle"
    /\ \E records \in DeleteInputs :
        calls' = [calls EXCEPT ![p] =
            NextDelete([Idle EXCEPT !.op = "DeleteRecords", !.records = records,
                                    !.i = 1, !.zone0 = zone])]
    /\ UNCHANGED <<zone, nextId>>

(***************************************************************************)
(* The specification: one caller, one operation on a zone.                 *)
(***************************************************************************)
Next ==
    \E p \in Procs :
        \/ StartAppend(p)
        \/ AppendCreate(p)
        \/ AppendFetchId(p)
        \/ StartSet(p)
        \/ SetLookup(p)
        \/ SetEdit(p)
        \/ StartDelete(p)
        \/ DeleteLookup(p)
        \/ DeleteRequest(p)

Spec == Init /\ [][Next]_vars

\* the calls of one operation
NextAppend == \E p \in Procs : StartAppend(p) \/ AppendCreate(p) \/ AppendFetchId(p)

SpecAppend == Init /\ [][NextAppend]_vars

NextSet ==
    \E p \in Procs :
        \/ StartSet(p)
        \/ SetLookup(p)
        \/ AppendCreate(p)
        \/ AppendFetchId(p)
        \/ SetEdit(p)

SpecSet == Init /\ [][NextSet]_vars

NextDeleteRecords == \E p \in Procs : StartDelete(p) \/ DeleteLookup(p) \/ DeleteRequest(p)

SpecDelete == Init /\ [][NextDeleteRecords]_vars

(***************************************************************************)
(* Two callers of SetRecords on the same zone, each with one record that   *)
(* has no ID.  The requests of the two calls interleave in any order.      *)
(***************************************************************************)
Callers == {"p1", "p2"}

OneRecordInputs == {records \in Inputs : Len(records) = 1 /\ records[1].ID = NoID}

InitRace ==
    /\ zone \in InitZones
    /\ nextId = Cardinality(zone) + 1
    /\ calls = [p \in Callers |-> Idle]

StartSetOne(p) ==
    /\ calls[p].pc = "idle"
    /\ \E records \in OneRecordInputs :
        calls' = [calls EXCEPT ![p] =
            Classify([Idle EXCEPT !.op = "SetRecords", !.records = records,
                                  !.i = 1, !.zone0 = zone])]
    /\ UNCHANGED <<zone, nextId>>

NextRace ==
    \E p \in Callers :
        \/ StartSetOne(p)
        \/ SetLookup(p)
        \/ AppendCreate(p)
        \/ AppendFetchId(p)
        \/ SetEdit(p)

SpecRace == InitRace /\ [][NextRace]_vars

(***************************************************************************)
(* The translation of a wire record into a typed record.  The content of a *)
(* wire record is the sequence of its space-separated fields; a field is a *)
(* decimal string, or a text kept whole.  A string that may hold spaces    *)
(* (a part of strings.SplitN) is again a sequence of fields.               *)
(***************************************************************************)
\* most fields in the content of a wire record
MaxFields == 4

Fields == {<<"0">>, <<"3", "0", "0">>, <<"issue">>}

Contents == UNION {[1..n -> Fields] : n \in 1..MaxFields}

\* the records of the translator's test and of the CAA example
SRVExample ==
    [Content |-> <<<<"1">>, <<"9", "9", "3">>, <<"imap.example.com">>>>,
     Name |-> <<"_imaps", "_tcp", "example", "com">>, Notes |-> "",
     Prio |-> <<"1", "0">>, TTL |-> <<"3", "0", "0">>, Type |-> "SRV"]

CAAExample ==
    [Content |-> <<<<"0">>, <<"issue">>, <<"letsencrypt.org">>>>,
     Name |-> <<"example", "com">>, Notes |-> "",
     Prio |-> <<"0">>, TTL |-> <<"3", "0", "0">>, Type |-> "CAA"]

\* the wire records translated; A and AAAA records are not among them
WireRecords ==
    [Content : Contents,
     Name : {<<"example", "com">>, <<"_imaps", "_tcp", "example", "com">>},
     Notes : {""},
     Prio : {<<"1", "0">>, <<"x">>},
     TTL : {<<"3", "0", "0">>, <<"x">>},
     Type : {"CAA", "CNAME", "SRV", "TXT", "MX"}]
    \cup {SRVExample, CAAExample}

\* strings.SplitN(content, " ", n), n > 0: at most n parts, the last of which
\* keeps the spaces after the first n - 1
SplitN(content, n) ==
    IF Len(content) <= n THEN [k \in 1..Len(content) |-> <<content[k]>>]
    ELSE [k \in 1..n |-> IF k < n THEN <<content[k]>> ELSE SubSeq(content, n, Len(content))]

\* strconv.Atoi of a string: one that holds a space is no number
AtoiString(s) == IF Len(s) = 1 THEN Atoi(s[1]) ELSE [ok |-> FALSE, val |-> 0]

\* what a call that indexes a slice out of its range ends with
Panic == [rec |-> [kind |-> "none"], err |-> "panic"]

\* pkbnRecord.toLibdnsRecord of the typed records
toTypedLibdnsRecord(record, zone_) ==
    LET name == RelativeName(record.Name, zone_)
        ttl == ParseSeconds(record.TTL)
    IN  IF ~ttl.ok THEN [rec |-> [kind |-> "RR"], err |-> "duration"]
        ELSE CASE record.Type = "CAA" ->
                    LET contentParts == SplitN(record.Content, 3)
                        flags == AtoiString(contentParts[1])
                    IN  IF ~flags.ok THEN [rec |-> [kind |-> "CAA"], err |-> "syntax"]
                        ELSE IF Len(contentParts) < 3 THEN Panic
                        ELSE [rec |-> [kind |-> "CAA", Name |-> name, TTL |-> ttl.val,
                                       Flags |-> flags.val % 256,
                                       Tag |-> contentParts[2],
                                       Value |-> contentParts[3]],
                              err |-> "nil"]
               [] record.Type = "CNAME" ->
                    [rec |-> [kind |-> "CNAME", Name |-> name, TTL |-> ttl.val,
                              Target |-> record.Content],
                     err |-> "nil"]
               [] record.Type = "SRV" ->
                    LET priority == Atoi(record.Prio)
                    IN  [rec |-> [kind |-> "SRV", Service |-> "", Transport |-> "",
                                  Name |-> name, TTL |-> ttl.val,
                                  Priority |-> priority.val % 65536,
                                  Weight |-> 0, Port |-> 0, Target |-> ""],
                         err |-> IF priority.ok THEN "nil" ELSE "syntax"]
               [] record.Type = "TXT" ->
                    [rec |-> [kind |-> "TXT", Name |-> name, TTL |-> ttl.val,
                              Text |-> record.Content],
                     err |-> "nil"]
               [] OTHER -> [rec |-> [kind |-> "RR"], err |-> "unsupported"]

\* a call of toLibdnsRecord about to run, on any wire record, with the zone as
\* the test passes it or as the Provider's callers do
InitTranslate ==
    /\ zone = {}
    /\ nextId = 1
    /\ \E record \in WireRecords, zone_ \in {Zone, LibdnsZoneToPorkbunDomain(Zone)} :
        calls = [p \in Procs |->
                    [Idle EXCEPT !.op = "toLibdnsRecord", !.pc = "translate",
                                 !.arg = <<record, zone_>>]]

Translate(p) ==
    /\ calls[p].pc = "translate"
    /\ calls' = [calls EXCEPT ![p] =
           [calls[p] EXCEPT !.pc = "returned",
                            !.ret = toTypedLibdnsRecord(calls[p].arg[1], calls[p].arg[2])]]
    /\ UNCHANGED <<zone, nextId>>

NextTranslate == \E p \in Procs : Translate(p)

SpecTranslate == InitTranslate /\ [][NextTranslate]_vars

(***************************************************************************)
(* GetRecords and CheckCredentials, on zones whose records may carry a ttl *)
(* or a prio that is no number.                                            *)
(***************************************************************************)
\* the ttl and prio strings of a wire record: a number, or not one
WireTTLs == {Itoa(MinTTL), <<"x">>}
WirePrios == {<<"0">>, <<"x">>}

\* the address the ping endpoint reports
YourIP == "192.0.2.1"

\* the zones GetRecords may find: n records, with IDs 1..n
ReadZones ==
    UNION {{{[ID |-> Itoa(k),
              Name |-> IF f[k][1] = <<"@">> THEN <<"example", "com">>
                       ELSE f[k][1] \o <<"example", "com">>,
              Type |-> "TXT", Content |-> "v0", TTL |-> f[k][2], Prio |-> f[k][3]]
             : k \in 1..n} : f \in [1..n -> Names \X WireTTLs \X WirePrios]}
           : n \in 0..MaxZone}

InitRead ==
    /\ zone \in ReadZones
    /\ nextId = Cardinality(zone) + 1
    /\ calls = [p \in Procs |-> Idle]

NoPayload == [Name |-> <<>>, Type |-> "", Content |-> "", TTL |-> <<>>]

\* /dns/retrieve/<domain>
ServerRetrieve(z) == SortByID(z)

\* GetRecords: one request; an error of the request or a status other than
\* SUCCESS is returned without records, and otherwise every record of the
\* response is translated
GetRecords(p) ==
    /\ calls[p].pc = "idle"
    /\ \E outcome \in Outcomes :
        LET records == ServerRetrieve(zone)
            c == Logged([Idle EXCEPT !.op = "GetRecords", !.zone0 = zone],
                        Request("retrieve", 0, NoID, NoPayload, outcome,
                                [k \in 1..Len(records) |-> records[k].ID]))
        IN  calls' = [calls EXCEPT ![p] =
                IF outcome = "httpError" THEN Returned(c, <<>>, "http")
                ELSE IF outcome = "statusError" THEN Returned(c, <<>>, "status")
                ELSE Returned(c, [k \in 1..Len(records) |->
                                     toLibdnsRecord(records[k], Zone)], "nil")]
    /\ UNCHANGED <<zone, nextId>>

\* the state of a CheckCredentials call that has returned (ip, err)
PingReturned(c, ip, err) == [c EXCEPT !.pc = "returned", !.ret = [ip |-> ip, err |-> err]]

\* CheckCredentials: one request to /ping; on a status other than SUCCESS it
\* returns "", err, where err is the nil error of the request that succeeded
CheckCredentials(p) ==
    /\ calls[p].pc = "idle"
    /\ \E outcome \in Outcomes :
        LET c == Logged([Idle EXCEPT !.op = "CheckCredentials", !.zone0 = zone],
                        Request("ping", 0, NoID, NoPayload, outcome, <<>>))
        IN  calls' = [calls EXCEPT ![p] =
                IF outcome = "httpError" THEN PingReturned(c, "", "http")
                ELSE IF outcome = "statusError" THEN PingReturned(c, "", "nil")
                ELSE PingReturned(c, YourIP, "nil")]
    /\ UNCHANGED <<zone, nextId>>

NextRead == \E p \in Procs : GetRecords(p) \/ CheckCredentials(p)

SpecRead == InitRead /\ [][NextRead]_vars

(***************************************************************************)
(* The two translations one after the other: a caller's record into the    *)
(* fields of a create request, and those fields, as a wire record, back    *)
(* into a record.                                                          *)
(***************************************************************************)
\* the records translated: TXT and MX records at the apex or at a subdomain,
\* with a TTL below the floor, on it and above it, and with or without a
\* priority
RoundTripTTLs == {60 * Second, MinTTL * Second, 900 * Second + 500, 3600 * Second}

RoundTripRecords ==
    [ID : {NoID}, Name : Names, Type : {"TXT", "MX"}, Value : {"v1", "v2"},
     TTL : RoundTripTTLs, Priority : {0, 10}]

\* the fields AppendRecords puts in the create request of a record
normalizedToWire(record, zone_) ==
    Payload([record EXCEPT !.TTL = FloorTTL(@)], zone_)

\* a pkbnRecord with the fields of a payload; the fields a payload lacks are
\* empty strings
PayloadAsRecord(payload) ==
    [Content |-> payload.Content, ID |-> NoID, Name |-> payload.Name,
     Prio |-> <<>>, TTL |-> payload.TTL, Type |-> payload.Type]

InitRoundTrip ==
    /\ zone = {}
    /\ nextId = 1
    /\ \E record \in RoundTripRecords, zone_ \in {Zone, LibdnsZoneToPorkbunDomain(Zone)} :
        calls = [p \in Procs |->
                    [Idle EXCEPT !.op = "roundTrip", !.pc = "toWire",
                                 !.records = <<record>>, !.arg = <<zone_>>]]

\* the record's create payload, kept after the zone in arg
ToWire(p) ==
    /\ calls[p].pc = "toWire"
    /\ calls' = [calls EXCEPT ![p] =
           [calls[p] EXCEPT !.pc = "fromWire",
                            !.arg = Append(calls[p].arg,
                                           normalizedToWire(calls[p].records[1],
                                                            calls[p].arg[1]))]]
    /\ UNCHANGED <<zone, nextId>>

\* the payload translated back with the same zone
FromWire(p) ==
    /\ calls[p].pc = "fromWire"
    /\ calls' = [calls EXCEPT ![p] =
           Returned(calls[p],
                    <<toLibdnsRecord(PayloadAsRecord(calls[p].arg[2]), calls[p].arg[1])>>,
                    "nil")]
    /\ UNCHANGED <<zone, nextId>>

NextRoundTrip == \E p \in Procs : ToWire(p) \/ FromWire(p)

SpecRoundTrip == InitRoundTrip /\ [][NextRoundTrip]_vars

(***************************************************************************)
(* SetRecords called twice in a row with the same input, of records that   *)
(* have no ID: caller p1 makes the first call, and once it has returned,   *)
(* caller p2 makes the second.                                             *)
(***************************************************************************)
InputsWithoutID == {records \in Inputs : \A k \in 1..Len(records) : records[k].ID = NoID}

StartSetFirst ==
    /\ calls["p1"].pc = "idle"
    /\ \E records \in InputsWithoutID :
        calls' = [calls EXCEPT !["p1"] =
            Classify([Idle EXCEPT !.op = "SetRecords", !.records = records,
                                  !.i = 1, !.zone0 = zone])]
    /\ UNCHANGED <<zone, nextId>>

StartSetAgain ==
    /\ calls["p1"].op = "SetRecords" /\ calls["p1"].pc = "returned"
    /\ calls["p2"].pc = "idle"
    /\ calls' = [calls EXCEPT !["p2"] =
           Classify([Idle EXCEPT !.op = "SetRecords", !.records = calls["p1"].records,
                                 !.i = 1, !.zone0 = zone])]
    /\ UNCHANGED <<zone, nextId>>

NextTwice ==
    \/ StartSetFirst
    \/ StartSetAgain
    \/ \E p \in Callers :
        \/ SetLookup(p)
        \/ AppendCreate(p)
        \/ AppendFetchId(p)
        \/ SetEdit(p)

SpecTwice == InitRace /\ [][NextTwice]_vars

(***************************************************************************)
(* What the properties speak of.                                           *)
(***************************************************************************)
\* c is a call of op that has returned
HasReturned(c, op) == c.op = op /\ c.pc = "returned"

\* the requests of the given kinds a call has made, as positions of its log
RequestsOf(c, kinds) == {k \in 1..Len(c.log) : c.log[k].kind \in kinds}

\* those made for input record at
RequestsAt(c, kinds, at) == {k \in RequestsOf(c, kinds) : c.log[k].at = at}

\* every request of the given kinds came back with HTTP 200 and status SUCCESS
AllOk(c, kinds) == \A k \in RequestsOf(c, kinds) : c.log[k].outcome = "ok"

\* the (relative name, type) coordinate of a caller's record and of a zone record
CoordinateOf(r) == <<RelativeName(r.Name, Zone), r.Type>>

\* the ttl a request must carry for a record that asks for ttl
ExpectedTTL(ttl) == Itoa(Max(GoDiv(ttl, Second), MinTTL))

\* the matches of the lookup SetRecords or DeleteRecords made for input record at
MatchesAt(c, at) == c.log[CHOOSE k \in RequestsAt(c, {"lookup"}, at) : TRUE].matches

(***************************************************************************)
(* C1.  SetRecords is an upsert per input record.  When a SetRecords call  *)
(* has returned without error and every create and edit it sent succeeded, *)
(* then for every input record without an ID: if its lookup returned no    *)
(* match, exactly one create and no edit was sent for it; if its lookup    *)
(* returned one match, exactly one edit, addressed to that match's ID, and *)
(* no create was sent for it, and that record of the zone carries the      *)
(* record's content and TTL (floored) unless a later edit of the call      *)
(* addressed the same ID.  The zone has grown by one record per create.    *)
(***************************************************************************)
C1_SetRecordsUpserts ==
    \A p \in DOMAIN calls :
        LET c == calls[p]
            creates == RequestsOf(c, {"create"})
            edits == RequestsOf(c, {"edit"})
        IN  (HasReturned(c, "SetRecords") /\ c.ret.err = "nil" /\ AllOk(c, {"create", "edit"}))
            => /\ Cardinality(zone) = Cardinality(c.zone0) + Cardinality(creates)
               /\ IDsOf(c.zone0) \subseteq IDsOf(zone)
               /\ \A at \in 1..Len(c.records) :
                    c.records[at].ID = NoID =>
                        LET m == MatchesAt(c, at)
                            cr == RequestsAt(c, {"create"}, at)
                            ed == RequestsAt(c, {"edit"}, at)
                        IN  /\ Cardinality(RequestsAt(c, {"lookup"}, at)) = 1
                            /\ Len(m) <= 1
                            /\ Len(m) = 0 => Cardinality(cr) = 1 /\ ed = {}
                            /\ Len(m) = 1 =>
                                /\ cr = {}
                                /\ Cardinality(ed) = 1
                                /\ \A k \in ed :
                                    /\ c.log[k].ID = m[1]
                                    /\ (\A k2 \in edits : k2 > k => c.log[k2].ID # m[1])
                                       => LET z == RecordWithID(zone, m[1])
                                          IN  /\ z.Content = c.records[at].Value
                                              /\ z.TTL = ExpectedTTL(c.records[at].TTL)
                                              /\ CoordinateOf(z) = CoordinateOf(c.records[at])

\* a SetRecords call of two records without ID has returned: one was created,
\* the other has updated the record its lookup matched
C1_Witness ==
    \E p \in DOMAIN calls :
        LET c == calls[p]
        IN  /\ HasReturned(c, "SetRecords") /\ c.ret.err = "nil"
            /\ AllOk(c, {"create", "edit"})
            /\ Len(c.records) = 2
            /\ \A at \in 1..2 : c.records[at].ID = NoID
            /\ \E a, b \in 1..2 :
                /\ Len(MatchesAt(c, a)) = 0 /\ Len(MatchesAt(c, b)) = 1
                /\ Cardinality(zone) = Cardinality(c.zone0) + 1
                /\ RecordWithID(zone, MatchesAt(c, b)[1]).Content = c.records[b].Value

(***************************************************************************)
(* C2.  As claimed: SetRecords sends no delete, and every record the zone  *)
(* held when the call began whose coordinate is not the coordinate of an   *)
(* input record is still in the zone, unchanged, for every input.          *)
(***************************************************************************)
C2_FrameForEveryInput ==
    \A p \in DOMAIN calls :
        LET c == calls[p]
        IN  c.op = "SetRecords" =>
            /\ RequestsOf(c, {"delete"}) = {}
            /\ \A r \in c.zone0 :
                (\A at \in 1..Len(c.records) : CoordinateOf(c.records[at]) # CoordinateOf(r))
                => r \in zone

(***************************************************************************)
(* C2, amended.  SetRecords sends no delete, and every record the zone     *)
(* held when the call began whose coordinate is not the coordinate of an   *)
(* input record and whose ID is not the ID an input record carries is      *)
(* still in the zone, unchanged.                                           *)
(***************************************************************************)
C2_Frame ==
    \A p \in DOMAIN calls :
        LET c == calls[p]
        IN  c.op = "SetRecords" =>
            /\ RequestsOf(c, {"delete"}) = {}
            /\ \A r \in c.zone0 :
                (\A at \in 1..Len(c.records) :
                    /\ CoordinateOf(c.records[at]) # CoordinateOf(r)
                    /\ c.records[at].ID # r.ID)
                => r \in zone

\* a SetRecords call has returned that changed the zone, and the zone held a
\* record at a coordinate the input does not name, with an ID it does not carry
C2_Witness ==
    \E p \in DOMAIN calls :
        LET c == calls[p]
        IN  /\ HasReturned(c, "SetRecords") /\ c.ret.err = "nil"
            /\ \E k \in RequestsOf(c, {"edit"}) : c.log[k].outcome = "ok"
            /\ zone # c.zone0
            /\ \E r \in c.zone0 :
                /\ \A at \in 1..Len(c.records) :
                    /\ CoordinateOf(c.records[at]) # CoordinateOf(r)
                    /\ c.records[at].ID # r.ID
                /\ r \in zone

(***************************************************************************)
(* C3.  When the lookup SetRecords makes for an input record without ID    *)
(* returns more than one record, the call has returned an error, without   *)
(* records, and has sent no create, edit or delete: the zone is as it was. *)
(***************************************************************************)
C3_AmbiguousLookupFails ==
    \A p \in DOMAIN calls :
        LET c == calls[p]
        IN  (c.op = "SetRecords"
             /\ \E k \in RequestsOf(c, {"lookup"}) : Len(c.log[k].matches) > 1)
            => /\ c.pc = "returned"
               /\ c.ret.err = "ambiguous"
               /\ c.ret.recs = <<>>
               /\ RequestsOf(c, {"create", "edit", "delete"}) = {}
               /\ zone = c.zone0

\* the lookup of the second input record has returned two records
C3_Witness ==
    \E p \in DOMAIN calls :
        LET c == calls[p]
        IN  /\ HasReturned(c, "SetRecords")
            /\ \E k \in RequestsOf(c, {"lookup"}) :
                c.log[k].at = 2 /\ Len(c.log[k].matches) = 2
            /\ c.ret.err = "ambiguous"

(***************************************************************************)
(* C4.  When a DeleteRecords call has returned without error and every     *)
(* delete it sent succeeded: for each input record without ID, the deletes *)
(* sent for it address, one each and in order, the records its lookup      *)
(* returned; the result lists the deleted records, one per delete, those   *)
(* found by lookup as the zone held them; and the zone has lost exactly    *)
(* the records addressed.                                                  *)
(***************************************************************************)
DeletesOf(c) == SelectSeq(c.log, LAMBDA e : e.kind = "delete")

DeletedIDsAt(c, at) ==
    LET s == SelectSeq(c.log, LAMBDA e : e.kind = "delete" /\ e.at = at)
    IN  [k \in 1..Len(s) |-> s[k].ID]

C4_DeleteByLookupDeletesAll ==
    \A p \in DOMAIN calls :
        LET c == calls[p]
            dels == DeletesOf(c)
        IN  (HasReturned(c, "DeleteRecords") /\ c.ret.err = "nil" /\ AllOk(c, {"delete"}))
            => /\ Len(c.ret.recs) = Len(dels)
               /\ \A k \in 1..Len(dels) :
                    /\ c.ret.recs[k].ID = dels[k].ID
                    /\ c.records[dels[k].at].ID = NoID
                       => c.ret.recs[k] = toLibdnsRecord(RecordWithID(c.zone0, dels[k].ID), Zone)
               /\ \A at \in 1..Len(c.records) :
                    c.records[at].ID = NoID => DeletedIDsAt(c, at) = MatchesAt(c, at)
               /\ IDsOf(zone) = IDsOf(c.zone0) \ {dels[k].ID : k \in 1..Len(dels)}
               /\ Cardinality(zone) = Cardinality(c.zone0) - Len(c.ret.recs)

\* a DeleteRecords call has returned whose lookup for a record without ID
\* returned two records: both are deleted and reported
C4_Witness ==
    \E p \in DOMAIN calls :
        LET c == calls[p]
        IN  /\ HasReturned(c, "DeleteRecords") /\ c.ret.err = "nil"
            /\ AllOk(c, {"delete"})
            /\ \E at \in 1..Len(c.records) :
                /\ c.records[at].ID = NoID
                /\ Len(MatchesAt(c, at)) = 2
                /\ Len(c.ret.recs) = 2
                /\ Cardinality(zone) = Cardinality(c.zone0) - 2

(***************************************************************************)
(* C5.  Every create and every edit request carries as ttl the decimal     *)
(* string of max(whole seconds of the TTL its input record asks for, 600), *)
(* which is never below 600.                                               *)
(***************************************************************************)
C5_TTLFloor ==
    \A p \in DOMAIN calls :
        LET c == calls[p]
        IN  \A k \in RequestsOf(c, {"create", "edit"}) :
                /\ c.log[k].TTL = ExpectedTTL(c.records[c.log[k].at].TTL)
                /\ Atoi(c.log[k].TTL).ok
                /\ Atoi(c.log[k].TTL).val >= MinTTL

\* a call has sent an edit with ttl "600" for a record that asks for 60
\* seconds, and a create with ttl "900" for a record that asks for 900.5
C5_Witness ==
    \E p \in DOMAIN calls :
        LET c == calls[p]
        IN  /\ \E k \in RequestsOf(c, {"edit"}) :
                /\ c.records[c.log[k].at].TTL = 60 * Second
                /\ c.log[k].TTL = <<"6", "0", "0">>
            /\ \E k \in RequestsOf(c, {"create"}) :
                /\ c.records[c.log[k].at].TTL = 900 * Second + 500
                /\ c.log[k].TTL = <<"9", "0", "0">>

(***************************************************************************)
(* C6.  As claimed: when an edit request of a SetRecords call was answered *)
(* with a status other than SUCCESS, the call returns an error.            *)
(***************************************************************************)
C6_EditStatusFailureReported ==
    \A p \in DOMAIN calls :
        LET c == calls[p]
        IN  (HasReturned(c, "SetRecords")
             /\ \E k \in RequestsOf(c, {"edit"}) : c.log[k].outcome = "statusError")
            => c.ret.err # "nil"

(***************************************************************************)
(* C7.  As claimed: when a SetRecords call has returned without error, its *)
(* result has one record per input record, and every input record has been *)
(* written by a create or an edit that succeeded.                          *)
(***************************************************************************)
C7_NilErrorMeansAllWritten ==
    \A p \in DOMAIN calls :
        LET c == calls[p]
        IN  (HasReturned(c, "SetRecords") /\ c.ret.err = "nil")
            => /\ Len(c.ret.recs) = Len(c.records)
               /\ \A at \in 1..Len(c.records) :
                    \E k \in RequestsAt(c, {"create", "edit"}, at) : c.log[k].outcome = "ok"

(***************************************************************************)
(* C8.  As claimed: every record in the result of a DeleteRecords call is  *)
(* one whose delete request was answered with status SUCCESS, and is no    *)
(* longer in the zone.                                                     *)
(***************************************************************************)
C8_ReportedDeletedAreRemoved ==
    \A p \in DOMAIN calls :
        LET c == calls[p]
            dels == DeletesOf(c)
        IN  HasReturned(c, "DeleteRecords")
            => \A k \in 1..Len(c.ret.recs) :
                /\ k <= Len(dels)
                /\ dels[k].ID = c.ret.recs[k].ID
                /\ dels[k].outcome = "ok"
                /\ c.ret.recs[k].ID \notin IDsOf(zone)

(***************************************************************************)
(* C9.  When the create request for the i-th input record of an            *)
(* AppendRecords call failed, by a transport error or by a status other    *)
(* than SUCCESS, the call has returned an error with exactly i-1 records:  *)
(* the first i-1 input records in order, each created by a request that    *)
(* succeeded, with its floored TTL; and no create was sent for a later     *)
(* input record.                                                           *)
(***************************************************************************)
C9_AppendPartialResults ==
    \A p \in DOMAIN calls :
        LET c == calls[p]
        IN  \A k \in RequestsOf(c, {"create"}) :
                (c.op = "AppendRecords" /\ c.log[k].outcome # "ok")
                => LET i == c.log[k].at
                   IN  /\ c.pc = "returned"
                       /\ c.ret.err # "nil"
                       /\ Len(c.ret.recs) = i - 1
                       /\ \A j \in 1..(i - 1) :
                            /\ c.ret.recs[j].Name = c.records[j].Name
                            /\ c.ret.recs[j].Type = c.records[j].Type
                            /\ c.ret.recs[j].Value = c.records[j].Value
                            /\ c.ret.recs[j].TTL = Max(c.records[j].TTL, MinTTL * Second)
                            /\ \E q \in RequestsAt(c, {"create"}, j) : c.log[q].outcome = "ok"
                       /\ Cardinality(RequestsOf(c, {"create"})) = i
                       /\ \A q \in RequestsOf(c, {"create"}) : c.log[q].at <= i

\* the create of the second input record has failed after the first succeeded:
\* the call returned the error and the first record
C9_Witness ==
    \E p \in DOMAIN calls :
        LET c == calls[p]
        IN  /\ HasReturned(c, "AppendRecords")
            /\ \E k \in RequestsOf(c, {"create"}) :
                c.log[k].at = 2 /\ c.log[k].outcome = "statusError"
            /\ c.ret.err = "status"
            /\ Len(c.ret.recs) = 1
            /\ c.ret.recs[1].Value = c.records[1].Value
            /\ Cardinality(zone) = Cardinality(c.zone0) + 1

(***************************************************************************)
(* C10.  As claimed: when a create of a SetRecords call failed, or an edit *)
(* failed in transport, the call returns with the error the records it     *)
(* created or updated: as many as writes that succeeded.                   *)
(***************************************************************************)
C10_SetRecordsPartialResults ==
    \A p \in DOMAIN calls :
        LET c == calls[p]
            writes == RequestsOf(c, {"create", "edit"})
        IN  (HasReturned(c, "SetRecords")
             /\ (\A k \in RequestsOf(c, {"edit"}) : c.log[k].outcome # "statusError")
             /\ (\E k \in writes : c.log[k].outcome # "ok"))
            => /\ c.ret.err # "nil"
               /\ Len(c.ret.recs) = Cardinality({k \in writes : c.log[k].outcome = "ok"})

(***************************************************************************)
(* C11.  In an AppendRecords call, once the lookup that follows the        *)
(* successful create of input record i has been answered, record i is in   *)
(* the result, whatever the answer; its ID is the ID of the match when the *)
(* lookup succeeded with exactly one match, and otherwise the ID of the    *)
(* input record (none, for a record to create); and the call returns an    *)
(* error only when a create failed.                                        *)
(***************************************************************************)
ResultSoFar(c) == IF c.pc = "returned" THEN c.ret.recs ELSE c.createdRecords

C11_FetchFailureKeepsRecord ==
    \A p \in DOMAIN calls :
        LET c == calls[p]
        IN  c.op = "AppendRecords" =>
            /\ \A k \in RequestsOf(c, {"fetchId"}) :
                LET e == c.log[k]
                    res == ResultSoFar(c)
                IN  /\ Len(res) >= e.at
                    /\ res[e.at].Name = c.records[e.at].Name
                    /\ res[e.at].Type = c.records[e.at].Type
                    /\ res[e.at].Value = c.records[e.at].Value
                    /\ res[e.at].ID = IF e.outcome = "ok" /\ Len(e.matches) = 1
                                      THEN e.matches[1]
                                      ELSE c.records[e.at].ID
            /\ (c.pc = "returned" /\ c.ret.err # "nil")
               => \E q \in RequestsOf(c, {"create"}) : c.log[q].outcome # "ok"

\* an AppendRecords call has returned without error two records without ID:
\* the lookup after the first create returned two records, the lookup after
\* the second failed
C11_Witness ==
    \E p \in DOMAIN calls :
        LET c == calls[p]
        IN  /\ HasReturned(c, "AppendRecords") /\ c.ret.err = "nil"
            /\ Len(c.ret.recs) = 2
            /\ c.ret.recs[1].ID = NoID /\ c.ret.recs[2].ID = NoID
            /\ \E k \in RequestsAt(c, {"fetchId"}, 1) :
                c.log[k].outcome = "ok" /\ Len(c.log[k].matches) = 2
            /\ \E k \in RequestsAt(c, {"fetchId"}, 2) : c.log[k].outcome = "httpError"

(***************************************************************************)
(* C12.  As claimed: when a lookup of a DeleteRecords call failed in       *)
(* transport, or a delete request failed in transport or was answered with *)
(* a status other than SUCCESS, that request is the call's last, and the   *)
(* call has returned an error with exactly the records of the deletes sent *)
(* before it, in order.                                                    *)
(***************************************************************************)
DeletedIDsBefore(c, k) ==
    LET s == SelectSeq(SubSeq(c.log, 1, k - 1), LAMBDA e : e.kind = "delete")
    IN  [q \in 1..Len(s) |-> s[q].ID]

FailedInDelete(c) ==
    {k \in 1..Len(c.log) :
        \/ c.log[k].kind = "lookup" /\ c.log[k].outcome = "httpError"
        \/ c.log[k].kind = "delete" /\ c.log[k].outcome # "ok"}

C12_DeleteStopsAtFailure ==
    \A p \in DOMAIN calls :
        LET c == calls[p]
        IN  c.op = "DeleteRecords" =>
            \A k \in FailedInDelete(c) :
                /\ c.pc = "returned"
                /\ k = Len(c.log)
                /\ c.ret.err # "nil"
                /\ [q \in 1..Len(c.ret.recs) |-> c.ret.recs[q].ID] = DeletedIDsBefore(c, k)

(***************************************************************************)
(* C13.  An AppendRecords call sends no edit and no delete; it sends at    *)
(* most one create per input record, in input order, whether or not the    *)
(* zone holds a record at the same coordinate; the zone has grown by the   *)
(* number of creates that succeeded and has kept every record it held;     *)
(* once the call has returned, its result has as many records as creates   *)
(* succeeded; and a call that returned without error has sent exactly one  *)
(* create for every input record.                                          *)
(***************************************************************************)
OkCreates(c) == {k \in RequestsOf(c, {"create"}) : c.log[k].outcome = "ok"}

C13_AppendOnlyCreates ==
    \A p \in DOMAIN calls :
        LET c == calls[p]
            creates == RequestsOf(c, {"create"})
        IN  c.op = "AppendRecords" =>
            /\ RequestsOf(c, {"edit", "delete", "lookup"}) = {}
            /\ \A k, l \in creates : k < l => c.log[k].at < c.log[l].at
            /\ Cardinality(zone) = Cardinality(c.zone0) + Cardinality(OkCreates(c))
            /\ c.zone0 \subseteq zone
            /\ c.pc = "returned" => Len(c.ret.recs) = Cardinality(OkCreates(c))
            /\ (c.pc = "returned" /\ c.ret.err = "nil")
               => \A at \in 1..Len(c.records) :
                    Cardinality(RequestsAt(c, {"create"}, at)) = 1

\* an AppendRecords call has returned two records created at a coordinate
\* where the zone already held one: the zone holds three there
C13_Witness ==
    \E p \in DOMAIN calls :
        LET c == calls[p]
        IN  /\ HasReturned(c, "AppendRecords") /\ c.ret.err = "nil"
            /\ Len(c.records) = 2 /\ Len(c.ret.recs) = 2
            /\ \A at \in 1..2 :
                \E r \in c.zone0 : CoordinateOf(r) = CoordinateOf(c.records[at])
            /\ CoordinateOf(c.records[1]) = CoordinateOf(c.records[2])
            /\ Cardinality(zone) = Cardinality(c.zone0) + 2

(***************************************************************************)
(* C14.  As claimed: a CheckCredentials call that has returned a nil error *)
(* had its ping answered with status SUCCESS.                              *)
(***************************************************************************)
C14_PingStatusChecked ==
    \A p \in DOMAIN calls :
        LET c == calls[p]
        IN  (HasReturned(c, "CheckCredentials") /\ c.ret.err = "nil")
            => \A k \in RequestsOf(c, {"ping"}) : c.log[k].outcome = "ok"

(***************************************************************************)
(* C15.  As claimed: a GetRecords call whose response has a status other   *)
(* than SUCCESS, or lists a record whose ttl is not a number, returns an   *)
(* error and no records.                                                   *)
(***************************************************************************)
MalformedTTL(z) == {r \in z : ~ParseSeconds(r.TTL).ok}

C15_GetRecordsAllOrNothing ==
    \A p \in DOMAIN calls :
        LET c == calls[p]
        IN  (HasReturned(c, "GetRecords")
             /\ \E k \in RequestsOf(c, {"retrieve"}) :
                    \/ c.log[k].outcome = "statusError"
                    \/ c.log[k].outcome = "ok" /\ MalformedTTL(c.zone0) # {})
            => c.ret.err # "nil" /\ c.ret.recs = <<>>

(***************************************************************************)
(* C16.  As claimed: of the creates and edits of a SetRecords call, the    *)
(* one for an earlier input record is sent before the one for a later      *)
(* input record.                                                           *)
(***************************************************************************)
C16_WritesInInputOrder ==
    \A p \in DOMAIN calls :
        LET c == calls[p]
            writes == RequestsOf(c, {"create", "edit"})
        IN  c.op = "SetRecords" =>
            \A k, l \in writes : c.log[k].at < c.log[l].at => k < l

(***************************************************************************)
(* C16, amended.  The creates of a SetRecords call are sent in the order   *)
(* of their input records, its edits in the order of theirs, and every     *)
(* create before every edit; each request is sent after the one before it  *)
(* was answered.                                                           *)
(***************************************************************************)
C16_WritesInPhaseOrder ==
    \A p \in DOMAIN calls :
        LET c == calls[p]
            writes == RequestsOf(c, {"create", "edit"})
        IN  c.op = "SetRecords" =>
            \A k, l \in writes :
                /\ (c.log[k].kind = c.log[l].kind /\ c.log[k].at < c.log[l].at) => k < l
                /\ (c.log[k].kind = "create" /\ c.log[l].kind = "edit") => k < l

\* a SetRecords call has edited its first input record after it created its
\* second
C16_Witness ==
    \E p \in DOMAIN calls :
        LET c == calls[p]
        IN  /\ HasReturned(c, "SetRecords") /\ c.ret.err = "nil"
            /\ \E k \in RequestsAt(c, {"create"}, 2), l \in RequestsAt(c, {"edit"}, 1) :
                k < l /\ c.log[k].outcome = "ok" /\ c.log[l].outcome = "ok"

(***************************************************************************)
(* C17.  When two SetRecords calls for the same coordinate have both       *)
(* returned without error, and the lookup of each found no record there,   *)
(* both have created a record: the zone holds two records at that          *)
(* coordinate.                                                             *)
(***************************************************************************)
RecordsAt(z, coordinate) == {r \in z : CoordinateOf(r) = coordinate}

FoundNone(c) ==
    /\ HasReturned(c, "SetRecords") /\ c.ret.err = "nil"
    /\ \E k \in RequestsAt(c, {"lookup"}, 1) :
        c.log[k].outcome = "ok" /\ c.log[k].matches = <<>>

C17_StaleDecisionDuplicates ==
    \A p, q \in DOMAIN calls :
        (/\ p # q
         /\ FoundNone(calls[p]) /\ FoundNone(calls[q])
         /\ CoordinateOf(calls[p].records[1]) = CoordinateOf(calls[q].records[1]))
        => /\ Cardinality(RecordsAt(zone, CoordinateOf(calls[p].records[1]))) = 2
           /\ \A c \in {calls[p], calls[q]} :
                \E k \in RequestsOf(c, {"create"}) : c.log[k].outcome = "ok"

\* both calls began on a zone without a record at the coordinate, both
\* looked it up before either created it, and the zone now holds two there
C17_Witness ==
    \E p, q \in DOMAIN calls :
        /\ p # q
        /\ FoundNone(calls[p]) /\ FoundNone(calls[q])
        /\ CoordinateOf(calls[p].records[1]) = CoordinateOf(calls[q].records[1])
        /\ RecordsAt(calls[p].zone0, CoordinateOf(calls[p].records[1])) = {}
        /\ RecordsAt(calls[q].zone0, CoordinateOf(calls[p].records[1])) = {}
        /\ Cardinality(RecordsAt(zone, CoordinateOf(calls[p].records[1]))) = 2

Translated(c) == c.op = "toLibdnsRecord" /\ c.pc = "returned"

StripUnderscore(label) ==
    CASE label = "_imaps" -> "imaps" [] label = "_tcp" -> "tcp" [] OTHER -> label

C19_SRVTranslation ==
    \A p \in DOMAIN calls :
        LET c == calls[p]
            record == c.arg[1]
        IN  (/\ Translated(c)
             /\ record.Type = "SRV"
             /\ ParseSeconds(record.TTL).ok /\ Atoi(record.Prio).ok
             /\ Len(record.Content) = 3
             /\ Atoi(record.Content[1]).ok /\ Atoi(record.Content[2]).ok
             /\ record.Name = <<"_imaps", "_tcp", "example", "com">>)
            => /\ c.ret.err = "nil"
               /\ c.ret.rec.Priority = Atoi(record.Prio).val
               /\ c.ret.rec.Weight = Atoi(record.Content[1]).val
               /\ c.ret.rec.Port = Atoi(record.Content[2]).val
               /\ c.ret.rec.Target = <<record.Content[3]>>
               /\ c.ret.rec.Service = StripUnderscore(record.Name[1])
               /\ c.ret.rec.Transport = StripUnderscore(record.Name[2])

(***************************************************************************)
(* C20.  As claimed: the translation of a CAA wire record returns, for a   *)
(* content of three or more fields whose first is a number below 256, the  *)
(* flags, the tag and, as value, all the fields after the tag; and for a   *)
(* content of fewer than three fields or with flags that are no number, an *)
(* error and no record, without a panic.                                   *)
(***************************************************************************)
C20_CAATranslation ==
    \A p \in DOMAIN calls :
        LET c == calls[p]
            record == c.arg[1]
            flags == Atoi(record.Content[1])
        IN  (Translated(c) /\ record.Type = "CAA" /\ ParseSeconds(record.TTL).ok)
            => IF Len(record.Content) >= 3 /\ flags.ok
               THEN flags.val < 256
                    => /\ c.ret.err = "nil"
                       /\ c.ret.rec.Flags = flags.val
                       /\ c.ret.rec.Tag = <<record.Content[2]>>
                       /\ c.ret.rec.Value = SubSeq(record.Content, 3, Len(record.Content))
               ELSE /\ c.ret.err \notin {"nil", "panic"}
                    /\ ~("Tag" \in DOMAIN c.ret.rec)

(***************************************************************************)
(* C21.  As claimed: a record translated into the fields of a create       *)
(* request and back, with the same zone, is the record again, whatever its *)
(* TTL and priority.                                                       *)
(***************************************************************************)
C21_RoundTrip ==
    \A p \in DOMAIN calls :
        LET c == calls[p]
        IN  HasReturned(c, "roundTrip") => c.ret.recs[1] = c.records[1]

(***************************************************************************)
(* C22.  As claimed: in every call, a request that failed, in transport or *)
(* by a status other than SUCCESS, and that is not the lookup that follows *)
(* a create, is the last request of the call.                              *)
(***************************************************************************)
FailedRequests(c) ==
    {k \in 1..Len(c.log) : c.log[k].kind # "fetchId" /\ c.log[k].outcome # "ok"}

C22_NoRequestAfterFailure ==
    \A p \in DOMAIN calls :
        LET c == calls[p]
        IN  \A k \in FailedRequests(c) : k = Len(c.log)

(***************************************************************************)
(* C23.  Every lookup by which a SetRecords call classifies its input is   *)
(* sent before every create and edit of the call; and when such a lookup,  *)
(* for an input record at any position, failed in transport or returned    *)
(* more than one record, the call has returned an error without records,   *)
(* has sent no create and no edit, and the zone is as it was when the call *)
(* began.                                                                  *)
(***************************************************************************)
FailedClassifying(c) ==
    {k \in RequestsOf(c, {"lookup"}) :
        c.log[k].outcome = "httpError" \/ Len(c.log[k].matches) > 1}

C23_ClassificationFailureWritesNothing ==
    \A p \in DOMAIN calls :
        LET c == calls[p]
        IN  c.op = "SetRecords" =>
            /\ \A k \in RequestsOf(c, {"lookup"}), l \in RequestsOf(c, {"create", "edit"}) :
                k < l
            /\ FailedClassifying(c) # {}
               => /\ c.pc = "returned"
                  /\ c.ret.err # "nil"
                  /\ c.ret.recs = <<>>
                  /\ RequestsOf(c, {"create", "edit", "fetchId", "delete"}) = {}
                  /\ zone = c.zone0

\* the lookup of the second input record failed after the lookup of the first
\* found no record: the call has returned without the create of the first
C23_Witness ==
    \E p \in DOMAIN calls :
        LET c == calls[p]
        IN  /\ HasReturned(c, "SetRecords")
            /\ Len(c.records) = 2
            /\ \E k \in RequestsAt(c, {"lookup"}, 1) :
                c.log[k].outcome = "ok" /\ c.log[k].matches = <<>>
            /\ \E k \in RequestsAt(c, {"lookup"}, 2) : c.log[k].outcome = "httpError"
            /\ c.ret.err = "http"
            /\ RequestsOf(c, {"create", "edit"}) = {}
            /\ zone = c.zone0

(***************************************************************************)
(* C24.  As claimed: when a SetRecords call has returned without error, on *)
(* a zone that held at most one record at the coordinate of every input    *)
(* record when the call began, the zone holds exactly one record at the    *)
(* coordinate of every input record without ID, also when two input        *)
(* records name the same coordinate.                                       *)
(***************************************************************************)
AtMostOneEach(c) ==
    \A at \in 1..Len(c.records) :
        Cardinality(RecordsAt(c.zone0, CoordinateOf(c.records[at]))) <= 1

C24_OneRecordPerCoordinate ==
    \A p \in DOMAIN calls :
        LET c == calls[p]
        IN  (HasReturned(c, "SetRecords") /\ c.ret.err = "nil" /\ AtMostOneEach(c))
            => \A at \in 1..Len(c.records) :
                c.records[at].ID = NoID
                => Cardinality(RecordsAt(zone, CoordinateOf(c.records[at]))) = 1

(***************************************************************************)
(* C25.  As claimed: when SetRecords is called a second time with the      *)
(* input, of records without ID, of a first call that returned without     *)
(* error, and every request of both calls is answered with status SUCCESS, *)
(* the second call returns without error, sends no create, and leaves the  *)
(* zone as the first call left it, with as many records.                   *)
(***************************************************************************)
AllAnswered(c) == \A k \in 1..Len(c.log) : c.log[k].outcome = "ok"

C25_SetRecordsIdempotent ==
    LET first == calls["p1"]
        second == calls["p2"]
    IN  (/\ DOMAIN calls = Callers
         /\ HasReturned(first, "SetRecords") /\ first.ret.err = "nil"
         /\ HasReturned(second, "SetRecords")
         /\ second.records = first.records
         /\ AllAnswered(first) /\ AllAnswered(second))
        => /\ second.ret.err = "nil"
           /\ RequestsOf(second, {"create"}) = {}
           /\ zone = second.zone0
           /\ Cardinality(zone) = Cardinality(second.zone0)

====
